---- MODULE Spec2Model ----
(***************************************************************************)
(* Model of io_scene_godot/converters/simple_nodes.py: the external scene  *)
(* resolver, the resource registry adapter and the empty / camera / light  *)
(* node converters, acting on one scene document.                          *)
(*                                                                         *)
(* Python strings that the code inspects character by character (entity    *)
(* names, file names, paths, file contents) are sequences of one-character *)
(* strings.  Python floats are exact rationals <<num, den>> with den > 0   *)
(* in lowest terms; an angle in radians is the rational multiple of pi it  *)
(* stands for.  Values that may be None are records with a "kind" field.   *)
(***************************************************************************)
EXTENDS Integers, Sequences, FiniteSets, TLC

VARIABLES
    nodes,               \* escn_file.nodes: the node records registered so far
    external_resources,  \* escn_file.external_resources: registered resources
    external_hashes,     \* escn_file: logical name -> resource id
    tokens,              \* history: <<scene_name, token>> returned by use_external_scene
    call,                \* the last operation called and its arguments
    ret,                 \* the value that call returned
    log                  \* what that call did: warnings, filesystem reads, collaborator calls

vars == <<nodes, external_resources, external_hashes, tokens, call, ret, log>>

-----------------------------------------------------------------------------
(* Python values *)

None == [kind |-> "None"]
Str(s) == [kind |-> "str", val |-> s]
NodeRef(i) == [kind |-> "node", id |-> i]
Tuple2(a, b) == [kind |-> "tuple", path |-> a, type |-> b]
\* a call that ends in an exception instead of a return value
Raise(exc) == [kind |-> "raise", exc |-> exc]

\* bool(x) as used by `if instance:`: None and the empty string are falsy
Truthy(v) == v # None /\ v # Str("")

Max(S) == CHOOSE m \in S : \A n \in S : n <= m

RECURSIVE Gcd(_, _)
Gcd(a, b) == IF b = 0 THEN a ELSE Gcd(b, a % b)

IAbs(n) == IF n < 0 THEN -n ELSE n

\* a rational in lowest terms with a positive denominator
Rat(n, d) ==
    LET s == IF d < 0 THEN -1 ELSE 1
        g == Gcd(IAbs(n), IAbs(d))
    IN  <<(s * n) \div g, (s * d) \div g>>

RAdd(a, b) == Rat(a[1] * b[2] + b[1] * a[2], a[2] * b[2])
RDiv(a, b) == Rat(a[1] * b[2], a[2] * b[1])
RMul(a, b) == Rat(a[1] * b[1], a[2] * b[2])
RNeg(a) == <<-a[1], a[2]>>
RLess(a, b) == a[1] * b[2] < b[1] * a[2]
\* abs(x): x if x >= 0 else -x
PyAbs(a) == IF RLess(a, Rat(0, 1)) THEN RNeg(a) ELSE a
\* math.degrees(x) for x = q * pi
Degrees(q) == RMul(q, Rat(180, 1))

-----------------------------------------------------------------------------
(* Strings as character sequences *)

Slash == "/"
Newline == "\n"
CarriageReturn == "\r"
\* a byte of a file that is no valid text in the encoding open() decodes with;
\* every other item of a content is one character, encoded in one byte
BadByte == "0xFF"
\* the bytes a text file reads and decodes at a time
ChunkSize == 8192

\* needle in hay (Python `in` on str)
Contains(needle, hay) ==
    \E i \in 0..(Len(hay) - Len(needle)) :
        SubSeq(hay, i + 1, i + Len(needle)) = needle

Min(S) == CHOOSE x \in S : \A y \in S : x <= y

\* open() reads text with universal newlines: "\n", "\r" and "\r\n" end a line
LineEnds(content) ==
    {i \in 1..Len(content) : content[i] \in {Newline, CarriageReturn}}

\* the bytes readline() has decoded when it returns: whole chunks, up to the
\* one that ends the first line (a "\r" waits for the byte behind it)
DecodedUpTo(content) ==
    IF LineEnds(content) = {} THEN Len(content)
    ELSE LET n == Min(LineEnds(content))
             need == IF content[n] = CarriageReturn /\ n < Len(content)
                     THEN n + 1 ELSE n
         IN  Min({Len(content), ((need + ChunkSize - 1) \div ChunkSize) * ChunkSize})

\* readline() raises UnicodeDecodeError if a chunk it decodes holds a bad byte
Decodes(content) == \A i \in 1..DecodedUpTo(content) : content[i] # BadByte

\* file.readline() of a content that decodes: up to the first line end, which
\* is returned as "\n" whichever way the file spells it
Readline(content) ==
    IF LineEnds(content) = {} THEN content
    ELSE SubSeq(content, 1, Min(LineEnds(content)) - 1) \o <<Newline>>

\* os.path.join(a, b) on POSIX
PathJoin(a, b) ==
    IF Len(b) > 0 /\ b[1] = Slash THEN b
    ELSE IF Len(a) = 0 \/ a[Len(a)] = Slash THEN a \o b
    ELSE a \o <<Slash>> \o b

RECURSIVE RStripSlash(_)
RStripSlash(p) ==
    IF Len(p) > 0 /\ p[Len(p)] = Slash THEN RStripSlash(SubSeq(p, 1, Len(p) - 1))
    ELSE p

\* os.path.dirname(p) on POSIX
Dirname(p) ==
    LET sl == {i \in 1..Len(p) : p[i] = Slash}
        head == IF sl = {} THEN <<>> ELSE SubSeq(p, 1, Max(sl))
    IN  IF head # <<>> /\ \E i \in 1..Len(head) : head[i] # Slash
        THEN RStripSlash(head)
        ELSE head

\* re.match('(.*\.[te]scn)', name): the scene suffix starts after k characters
SuffixAt(name, k) ==
    /\ k + 5 <= Len(name)
    /\ name[k + 1] = "."
    /\ name[k + 2] \in {"t", "e"}
    /\ name[k + 3] = "s"
    /\ name[k + 4] = "c"
    /\ name[k + 5] = "n"

\* the offsets k at which the pattern can end `.*`: `.` matches no newline
MatchOffsets(name) ==
    {k \in 0..Len(name) :
        SuffixAt(name, k) /\ \A i \in 1..k : name[i] # Newline}

\* mutant: the pattern anchored at the end of the name
re_match_Anchored(name) ==
    IF MatchOffsets(name) # {} /\ Max(MatchOffsets(name)) + 5 = Len(name)
    THEN Str(name)
    ELSE None

\* match.group(1) of re.match('(.*\.[te]scn)', name), None if no match:
\* `.*` is greedy, so the group runs to the last suffix found
re_match(name) ==
    IF MatchOffsets(name) = {} THEN None
    ELSE Str(SubSeq(name, 1, Max(MatchOffsets(name)) + 5))

-----------------------------------------------------------------------------
(* The filesystem: fs = [root, cwd], root the directory tree of "/",        *)
(*   [name, files: file name -> content, subdirs: sequence of trees]        *)
(* with subdirs in the order os.scandir lists them, and cwd the path of the *)
(* working directory of the process.                                        *)

RECURSIVE Walk(_, _)
RECURSIVE WalkAll(_, _)
\* os.walk(top): top-down, one (dir_path, files) entry per directory
Walk(top, dir) ==
    <<[dir_path |-> top, files |-> DOMAIN dir.files, content |-> dir.files]>>
    \o WalkAll(top, dir.subdirs)
WalkAll(top, subdirs) ==
    IF subdirs = <<>> THEN <<>>
    ELSE Walk(PathJoin(top, Head(subdirs).name), Head(subdirs))
         \o WalkAll(top, Tail(subdirs))

RECURSIVE Components(_)
\* the names between the slashes of a path
Components(path) ==
    IF path = <<>> THEN <<>>
    ELSE IF Head(path) = Slash THEN Components(Tail(path))
    ELSE LET sl == {i \in 1..Len(path) : path[i] = Slash}
             n == IF sl = {} THEN Len(path) + 1
                  ELSE CHOOSE i \in sl : \A j \in sl : i <= j
         IN  <<SubSeq(path, 1, n - 1)>> \o Components(SubSeq(path, n, Len(path)))

Dot == <<".">>
DotDot == <<".", ".">>

\* the place of the subdirectory of dir called name, 0 if there is none
SubdirAt(dir, name) ==
    LET at == {i \in 1..Len(dir.subdirs) : dir.subdirs[i].name = name}
    IN  IF at = {} THEN 0 ELSE CHOOSE i \in at : TRUE

RECURSIVE Descend(_, _)
\* the directories from the root down to the one that names lead to, starting
\* from the directories in stack; empty if a name is no directory there.
\* "." stays, ".." goes one up and stays at the root
Descend(stack, names) ==
    IF stack = <<>> \/ names = <<>> THEN stack
    ELSE IF Head(names) = Dot THEN Descend(stack, Tail(names))
    ELSE IF Head(names) = DotDot
    THEN Descend(IF Len(stack) > 1 THEN SubSeq(stack, 1, Len(stack) - 1) ELSE stack,
                 Tail(names))
    ELSE IF SubdirAt(stack[Len(stack)], Head(names)) = 0 THEN <<>>
    ELSE Descend(Append(stack,
                        stack[Len(stack)].subdirs[SubdirAt(stack[Len(stack)],
                                                           Head(names))]),
                 Tail(names))

\* the directories from the root down to folder: an absolute path starts at
\* the root, a relative one at the working directory, the empty one nowhere
ResolveStack(fs, folder) ==
    IF folder = <<>> THEN <<>>
    ELSE IF Head(folder) = Slash THEN Descend(<<fs.root>>, Components(folder))
    ELSE Descend(Descend(<<fs.root>>, Components(fs.cwd)), Components(folder))

\* the last directory of a stack, None if the stack is empty
Last(stack) == IF stack = <<>> THEN None ELSE stack[Len(stack)]

\* the directory at folder, None if there is none
Resolve(fs, folder) == Last(ResolveStack(fs, folder))

\* os.walk of a folder that does not exist yields nothing
WalkFrom(top, dir) == IF dir = None THEN <<>> ELSE Walk(top, dir)

os_walk(fs, folder) == WalkFrom(folder, Resolve(fs, folder))

RECURSIVE Candidates(_, _)
\* lines 18-22: the path of every file called scene_filename, in walk order
Candidates(walk, scene_filename) ==
    IF walk = <<>> THEN <<>>
    ELSE LET e == Head(walk)
             rest == Candidates(Tail(walk), scene_filename)
         IN  IF scene_filename \in e.files
             THEN <<[path |-> PathJoin(e.dir_path, scene_filename),
                     content |-> e.content[scene_filename]]>> \o rest
             ELSE rest

Marker == <<"g", "d", "_", "s", "c", "e", "n", "e">>

RECURSIVE ValidCandidates(_)
\* lines 25-30: the candidates whose first line holds the marker
ValidCandidates(candidates) ==
    IF candidates = <<>> THEN <<>>
    ELSE LET c == Head(candidates)
             rest == ValidCandidates(Tail(candidates))
         IN  IF Contains(Marker, Readline(c.content))
             THEN <<Tuple2(c.path, "PackedScene")>> \o rest
             ELSE rest

Event(e, a) == [ev |-> e, arg |-> a]
Opens(candidates) == [i \in 1..Len(candidates) |-> Event("open", candidates[i].path)]

\* lines 32-36: the first valid candidate, with a warning if there are more
PickScene(valid_candidates, reads) ==
    IF valid_candidates = <<>>
    THEN [ret |-> None, log |-> reads]
    ELSE IF Len(valid_candidates) > 1
    THEN [ret |-> valid_candidates[1],
          log |-> reads \o <<Event("warning", "Multiple scenes found")>>]
    ELSE [ret |-> valid_candidates[1], log |-> reads]

\* the place of the first candidate whose first line does not decode, 0 if
\* every candidate decodes
FirstUndecodable(candidates) ==
    LET bad == {i \in 1..Len(candidates) : ~Decodes(candidates[i].content)}
    IN  IF bad = {} THEN 0 ELSE Min(bad)

\* lines 26-28: readline raises at candidate k, after the candidates before
\* it were read; the exception leaves the function
ReadUpTo(candidates, folder, k) ==
    IF k > 0
    THEN [ret |-> Raise("UnicodeDecodeError"),
          log |-> <<Event("walk", folder)>> \o Opens(SubSeq(candidates, 1, k))]
    ELSE PickScene(ValidCandidates(candidates),
                   <<Event("walk", folder)>> \o Opens(candidates))

\* lines 24-36, given the candidates the walk of folder collected
SceneAmong(candidates, folder) ==
    ReadUpTo(candidates, folder, FirstUndecodable(candidates))

\* [ret, log] of _find_scene_in_subtree(folder, scene_filename) on filesystem fs
_find_scene_in_subtree(fs, folder, scene_filename) ==
    SceneAmong(Candidates(os_walk(fs, folder), scene_filename), folder)

\* mutant: any other search type falls back to the export folder
SearchDir_Fallback(export_settings) ==
    IF export_settings.material_search_paths = "PROJECT_DIR"
    THEN export_settings.project_path_func
    ELSE Str(Dirname(export_settings.path))

\* lines 40-46: the search root, None if there is none
SearchDir(export_settings) ==
    IF export_settings.material_search_paths = "PROJECT_DIR"
    THEN export_settings.project_path_func
    ELSE IF export_settings.material_search_paths = "EXPORT_DIR"
    THEN Str(Dirname(export_settings.path))
    ELSE None

\* lines 48-50
SearchIn(fs, search_dir, scene_filename) ==
    IF search_dir = None
    THEN [ret |-> None, log |-> <<>>]
    ELSE _find_scene_in_subtree(fs, search_dir.val, scene_filename)

\* [ret, log] of find_scene(export_settings, scene_filename)
find_scene(fs, export_settings, scene_filename) ==
    SearchIn(fs, SearchDir(export_settings), scene_filename)

-----------------------------------------------------------------------------
(* The document (escn_file) and the node templates of ..structures, and the *)
(* animation collaborator of .animation, at their interface.  A world w is  *)
(* the document together with the log of the running call.                  *)

EmptyMap == [k \in {} |-> None]
PyInt(i) == [kind |-> "int", val |-> i]

World == [nodes |-> nodes, external_resources |-> external_resources,
          external_hashes |-> external_hashes, log |-> <<>>]

Logged(w, events) == [w EXCEPT !.log = @ \o events]

get_external_resource(w, hashable) ==
    IF hashable \in DOMAIN w.external_hashes
    THEN PyInt(w.external_hashes[hashable])
    ELSE None

\* [w, id]: the resource is appended and gets the next identifier
add_external_resource(w, item, hashable) ==
    LET index == Len(w.external_resources) + 1
    IN  [w |-> [w EXCEPT
                  !.external_resources =
                      Append(@, [path |-> item.path, type |-> item.type,
                                 name |-> hashable, id |-> index]),
                  !.external_hashes = (hashable :> index) @@ @],
         id |-> index]

ExternalResource(path, type) == [path |-> path, type |-> type]

\* a node object; its identity is the count of nodes built so far
NodeTemplate(w, name, type, parent) ==
    [cls |-> "NodeTemplate", id |-> Len(w.nodes) + 1, name |-> name,
     type |-> type, instance |-> None, parent |-> parent, attrs |-> EmptyMap]

InstanceTemplate(w, name, instance, parent) ==
    [cls |-> "InstanceTemplate", id |-> Len(w.nodes) + 1, name |-> name,
     type |-> "", instance |-> instance, parent |-> parent, attrs |-> EmptyMap]

\* node[key] = value: keys are unique, the last write wins
SetItem(node, key, value) == [node EXCEPT !.attrs = (key :> value) @@ @]

add_node(w, node) ==
    Logged([w EXCEPT !.nodes = Append(@, node)], <<Event("add_node", node)>>)

fix_directional_transform(mtx) == [fn |-> "fix_directional_transform", arg |-> mtx]
gamma_correct(color) == [fn |-> "gamma_correct", arg |-> color]

\* returns nothing; a None target is accepted
export_animation_data(w, export_settings, godot_node, blender_object, action_type) ==
    Logged(w, <<[ev |-> "export_animation_data",
                 arg |-> IF godot_node = None THEN None ELSE NodeRef(godot_node.id),
                 action_type |-> action_type]>>)

-----------------------------------------------------------------------------
(* Resource registry adapter and the empty converter *)

Token(resource_id) == Str("ExtResource(" \o ToString(resource_id) \o ")")

\* mutant: the document is not asked for an existing resource
RegisterScene_Unchecked(w1, external_scene, scene_name) ==
    IF external_scene.kind = "raise" THEN [w |-> w1, ret |-> external_scene]
    ELSE IF external_scene # None
    THEN LET added == add_external_resource(
                          w1,
                          ExternalResource(external_scene.path, external_scene.type),
                          scene_name)
         IN  [w |-> added.w, ret |-> Token(added.id)]
    ELSE [w |-> Logged(w1, <<Event("warning", "Unable to find")>>), ret |-> None]

\* lines 54-67, in the world w1 that find_scene left; an exception of
\* find_scene leaves use_external_scene at line 53
RegisterScene(w1, external_scene, scene_name) ==
    IF external_scene.kind = "raise" THEN [w |-> w1, ret |-> external_scene]
    ELSE IF external_scene # None
    THEN LET resource_id == get_external_resource(w1, scene_name)
         IN  IF resource_id = None
             THEN LET added == add_external_resource(
                                   w1,
                                   ExternalResource(external_scene.path,
                                                    external_scene.type),
                                   scene_name)
                  IN  [w |-> added.w, ret |-> Token(added.id)]
             ELSE [w |-> w1, ret |-> Token(resource_id.val)]
    ELSE [w |-> Logged(w1, <<Event("warning", "Unable to find")>>), ret |-> None]

\* line 53: the call of find_scene, its reads and its outcome logged
FoundScene(w, found, scene_name) ==
    RegisterScene(Logged(w, found.log \o <<[ev |-> "find_scene", arg |-> scene_name,
                                            ret |-> found.ret]>>),
                  found.ret, scene_name)

\* [w, ret] of use_external_scene(escn_file, export_settings, scene_name)
use_external_scene(w, fs, export_settings, scene_name) ==
    FoundScene(w, find_scene(fs, export_settings, scene_name), scene_name)

\* lines 85-89: register node, built with its attributes, and return it
Registered(w, node) == [w |-> add_node(w, node), ret |-> NodeRef(node.id)]

SpatialNode(w, node, parent_gd_node) ==
    Registered(w, SetItem(NodeTemplate(w, node.name, "Spatial", parent_gd_node),
                          "transform", node.matrix_local))

\* mutant: an instance node is built whatever use_external_scene returned
InstanceNode_Always(used, node, parent_gd_node) ==
    IF used.ret.kind = "raise" THEN used
    ELSE Registered(used.w,
               SetItem(InstanceTemplate(used.w, node.name, used.ret, parent_gd_node),
                       "transform", node.matrix_local))

\* lines 78-83, and the fall-through to line 85 when instance is falsy; an
\* exception of use_external_scene leaves export_empty_node at line 77
InstanceNode(used, node, parent_gd_node) ==
    IF used.ret.kind = "raise" THEN used
    ELSE IF Truthy(used.ret)
    THEN Registered(used.w,
                    SetItem(InstanceTemplate(used.w, node.name, used.ret,
                                             parent_gd_node),
                            "transform", node.matrix_local))
    ELSE SpatialNode(used.w, node, parent_gd_node)

\* lines 74-77: the name matched, its first group is the scene name
MatchedScene(w, fs, export_settings, node, parent_gd_node, match) ==
    IF match # None
    THEN InstanceNode(use_external_scene(w, fs, export_settings, match.val),
                      node, parent_gd_node)
    ELSE SpatialNode(w, node, parent_gd_node)

\* mutant: the object types are not consulted
export_empty_node_Unfiltered(w, fs, export_settings, node, parent_gd_node) ==
    MatchedScene(w, fs, export_settings, node, parent_gd_node, re_match(node.name))

\* [w, ret] of export_empty_node(escn_file, export_settings, node, parent_gd_node)
export_empty_node(w, fs, export_settings, node, parent_gd_node) ==
    IF "EMPTY" \notin export_settings.object_types
    THEN [w |-> w, ret |-> parent_gd_node]
    ELSE MatchedScene(w, fs, export_settings, node, parent_gd_node,
                      re_match(node.name))

-----------------------------------------------------------------------------
(* Attribute conversion tables *)

AttributeConvertInfo(bl_name, gd_name, converter) ==
    [bl_name |-> bl_name, gd_name |-> gd_name, converter |-> converter]

\* mutant: the energy is scaled but keeps its sign
omni_energy_Signed(x) == RDiv(x, Rat(100, 1))

\* lambda x: abs(x / 100.0), line 166
omni_energy(x) == PyAbs(RDiv(x, Rat(100, 1)))
\* lambda x: abs(x / 100.0), line 171
spot_energy(x) == PyAbs(RDiv(x, Rat(100, 1)))
\* abs, line 181
directional_energy(x) == PyAbs(x)
\* lambda x: math.degrees(x/2), line 173
spot_angle(x) == Degrees(RDiv(x, Rat(2, 1)))
\* lambda x: 0.2/(x + 0.01), line 176
spot_angle_attenuation(x) == RDiv(Rat(2, 10), RAdd(x, Rat(1, 100)))

Convert(converter, x) ==
    CASE converter = "identity" -> x
      [] converter = "gamma_correct" -> gamma_correct(x)
      [] converter = "omni_energy" -> omni_energy(x)
      [] converter = "spot_energy" -> spot_energy(x)
      [] converter = "directional_energy" -> directional_energy(x)
      [] converter = "spot_angle" -> spot_angle(x)
      [] converter = "spot_angle_attenuation" -> spot_angle_attenuation(x)

_cam_attr_conv == <<
    AttributeConvertInfo("clip_end", "far", "identity"),
    AttributeConvertInfo("clip_start", "near", "identity"),
    AttributeConvertInfo("ortho_scale", "size", "identity")>>

_light_attr_conv == <<
    AttributeConvertInfo("specular_factor", "light_specular", "identity"),
    AttributeConvertInfo("color", "light_color", "gamma_correct"),
    AttributeConvertInfo("shadow_color", "shadow_color", "gamma_correct")>>

_omni_attr_conv == <<
    AttributeConvertInfo("energy", "light_energy", "omni_energy"),
    AttributeConvertInfo("cutoff_distance", "omni_range", "identity")>>

_spot_attr_conv == <<
    AttributeConvertInfo("energy", "light_energy", "spot_energy"),
    AttributeConvertInfo("spot_size", "spot_angle", "spot_angle"),
    AttributeConvertInfo("spot_blend", "spot_angle_attenuation",
                         "spot_angle_attenuation"),
    AttributeConvertInfo("cutoff_distance", "spot_range", "identity")>>

_directional_attr_conv == <<
    AttributeConvertInfo("energy", "light_energy", "directional_energy")>>

CameraNode(w, name, parent) ==
    [NodeTemplate(w, name, "Camera", parent) EXCEPT !.cls = "CameraNode"]

LightNode(w, name, type, parent) ==
    [NodeTemplate(w, name, type, parent) EXCEPT !.cls = "LightNode"]

\* CameraNode.attribute_conversion and LightNode.attribute_conversion
attribute_conversion(node) ==
    IF node.cls = "CameraNode" THEN _cam_attr_conv
    ELSE IF node.type = "OmniLight" THEN _light_attr_conv \o _omni_attr_conv
    ELSE IF node.type = "SpotLight" THEN _light_attr_conv \o _spot_attr_conv
    ELSE IF node.type = "DirectionalLight"
    THEN _light_attr_conv \o _directional_attr_conv
    ELSE _light_attr_conv

RECURSIVE ApplyTable(_, _, _)
\* for item in table: node[gd_attr] = converter(getattr(data, bl_attr))
ApplyTable(node, table, data) ==
    IF table = <<>> THEN node
    ELSE LET item == Head(table)
         IN  ApplyTable(SetItem(node, item.gd_name,
                                Convert(item.converter, data[item.bl_name])),
                        Tail(table), data)

-----------------------------------------------------------------------------
(* Camera and light converters *)

\* mutant: the animation export runs before the node is registered
AnimateThenRegister(w, export_settings, gd_node, node, action_type) ==
    [w |-> add_node(export_animation_data(w, export_settings, gd_node,
                                          node.data, action_type), gd_node),
     ret |-> NodeRef(gd_node.id)]

\* lines 130-135 and 229-234: register the node, then hand it to the animation
\* export, and return it
RegisterAndAnimate(w, export_settings, gd_node, node, action_type) ==
    [w |-> export_animation_data(add_node(w, gd_node), export_settings, gd_node,
                                 node.data, action_type),
     ret |-> NodeRef(gd_node.id)]

\* lines 113-129: the camera node and its static attributes
CameraAttributes(cam_node, node) ==
    SetItem(
        SetItem(
            SetItem(ApplyTable(cam_node, attribute_conversion(cam_node), node.data),
                    "projection", IF node.data.type = "PERSP" THEN 0 ELSE 1),
            "fov", Degrees(node.data.angle)),
        "transform", fix_directional_transform(node.matrix_local))

\* [w, ret] of export_camera_node(escn_file, export_settings, node, parent_gd_node)
export_camera_node(w, export_settings, node, parent_gd_node) ==
    RegisterAndAnimate(w, export_settings,
                       CameraAttributes(CameraNode(w, node.name, parent_gd_node), node),
                       node, "camera")

bl_light_to_gd_light ==
    [t \in {"POINT", "SPOT", "SUN"} |->
        CASE t = "POINT" -> "OmniLight"
          [] t = "SPOT" -> "SpotLight"
          [] t = "SUN" -> "DirectionalLight"]

\* lines 217-227: the attributes of a light node
LightAttributes(light_node, node) ==
    SetItem(
        SetItem(
            SetItem(ApplyTable(light_node, attribute_conversion(light_node), node.data),
                    "transform", fix_directional_transform(node.matrix_local)),
            "light_negative", RLess(node.data.energy, Rat(0, 1))),
        "shadow_enabled", node.data.use_shadow /\ node.data.cycles.cast_shadow)

\* mutant: an unknown light kind returns before the animation export
export_light_node_EarlyReturn(w, export_settings, node, parent_gd_node) ==
    IF node.data.type \in DOMAIN bl_light_to_gd_light
    THEN RegisterAndAnimate(
             w, export_settings,
             LightAttributes(LightNode(w, node.name,
                                       bl_light_to_gd_light[node.data.type],
                                       parent_gd_node), node),
             node, "light")
    ELSE [w |-> Logged(w, <<Event("warning", "Unknown light type")>>), ret |-> None]

\* [w, ret] of export_light_node(escn_file, export_settings, node, parent_gd_node)
export_light_node(w, export_settings, node, parent_gd_node) ==
    IF node.data.type \in DOMAIN bl_light_to_gd_light
    THEN RegisterAndAnimate(
             w, export_settings,
             LightAttributes(LightNode(w, node.name,
                                       bl_light_to_gd_light[node.data.type],
                                       parent_gd_node), node),
             node, "light")
    ELSE [w |-> export_animation_data(
                    Logged(w, <<Event("warning", "Unknown light type")>>),
                    export_settings, None, node.data, "light"),
          ret |-> None]

-----------------------------------------------------------------------------
(* Inputs *)

MaxNodes == 2      \* nodes one document holds in Spec
MaxSubdirs == 2    \* subdirectories of a search root in SpecWide
MaxStem == 1       \* characters in front of the suffix of a name in SpecWide
MaxEnergy == 7     \* largest energy numerator in SpecWide

f_tscn == <<"f", ".", "t", "s", "c", "n">>
g_escn == <<"g", ".", "e", "s", "c", "n">>
ProjectDir == <<"/", "p">>
ExportDir == <<"/", "e">>
ExportPath == <<"/", "e", "/", "o">>

\* file contents: the marker in the first line, or not
Valid == <<"[">> \o Marker \o <<" ", "f", "]", Newline, "x">>
Invalid == <<"[", "g", "d", "_", "r", "e", "s", "]", Newline>>
SecondLine == <<"x", Newline>> \o Marker \o <<Newline>>
NoNewline == Marker
SplitMarker == <<"g", "d", "_", Newline, "s", "c", "e", "n", "e">>
\* line ends of other platforms, and content that is no text
CrBeforeMarker == <<"x", CarriageReturn>> \o Marker \o <<Newline>>
CrLf == <<"[">> \o Marker \o <<"]", CarriageReturn, Newline, "x">>
CrSplitMarker == <<"g", "d", "_", CarriageReturn, "s", "c", "e", "n", "e">>
Undecodable == <<BadByte>> \o Marker \o <<Newline>>
UndecodableLater == Marker \o <<Newline, BadByte>>
Contents ==
    {Valid, Invalid, SecondLine, NoNewline, SplitMarker, <<>>,
     CrBeforeMarker, CrLf, CrSplitMarker, Undecodable, UndecodableLater}

Dir(name, files, subdirs) == [name |-> name, files |-> files, subdirs |-> subdirs]

Fs(root, cwd) == [root |-> root, cwd |-> cwd]

\* the filesystem of Spec: a project folder /p, an export folder /e with a
\* file that is no text below it, and a folder /q; the process runs in /
FsProject ==
    Fs(Dir(<<>>, EmptyMap,
           <<Dir(<<"p">>, (f_tscn :> Valid),
                 <<Dir(<<"s">>, (f_tscn :> Valid) @@ (g_escn :> Valid), <<>>)>>),
             Dir(<<"e">>, (f_tscn :> Invalid) @@ (g_escn :> NoNewline),
                 <<Dir(<<"u">>, (f_tscn :> Undecodable), <<>>)>>),
             Dir(<<"q">>, (f_tscn :> Valid) @@ (g_escn :> CrBeforeMarker),
                 <<Dir(<<"u">>, (f_tscn :> UndecodableLater) @@ (g_escn :> CrLf),
                       <<>>)>>)>>),
       <<Slash>>)

\* a filesystem that holds tree as /p and nothing else
FsOf(tree, cwd) ==
    Fs(Dir(<<>>, EmptyMap, <<[tree EXCEPT !.name = <<"p">>]>>), cwd)

SearchSettings ==
    {<<"PROJECT_DIR", Str(ProjectDir)>>, <<"PROJECT_DIR", None>>,
     <<"EXPORT_DIR", None>>, <<"NONE", Str(ProjectDir)>>}

Settings(object_types, ss) ==
    [object_types |-> object_types, material_search_paths |-> ss[1],
     project_path_func |-> ss[2], path |-> ExportPath]

AllTypes == {"EMPTY", "CAMERA", "LIGHT"}
SearchSettingsSet == {Settings(AllTypes, ss) : ss \in SearchSettings}
SettingsSet ==
    SearchSettingsSet \cup {Settings({"CAMERA", "LIGHT"}, ss) : ss \in SearchSettings}
NoEmptySettings == Settings({"CAMERA", "LIGHT"}, <<"PROJECT_DIR", Str(ProjectDir)>>)
DefaultSettings == Settings(AllTypes, <<"PROJECT_DIR", Str(ProjectDir)>>)

Matrix(m) == [m |-> m]
Entity(name, data) == [name |-> name, matrix_local |-> Matrix(name), data |-> data]

SceneNames == {f_tscn, g_escn}
EmptyNames == {<<"a">>, f_tscn, g_escn \o <<".", "1">>}

Camera(type) ==
    [type |-> type, clip_end |-> Rat(100, 1), clip_start |-> Rat(1, 10),
     ortho_scale |-> Rat(6, 1), angle |-> Rat(1, 2)]

Light(type, energy, use_shadow, cast_shadow) ==
    [type |-> type, energy |-> energy, specular_factor |-> Rat(1, 1),
     color |-> "white", shadow_color |-> "black", cutoff_distance |-> Rat(40, 1),
     spot_size |-> Rat(1, 2), spot_blend |-> Rat(0, 1),
     use_shadow |-> use_shadow, cycles |-> [cast_shadow |-> cast_shadow]]

\* the parent handed to a converter: none, or the node exported last
Parents == {None} \cup {NodeRef(i) : i \in {Len(nodes)} \ {0}}

-----------------------------------------------------------------------------
(* Operations *)

Init ==
    /\ nodes = <<>>
    /\ external_resources = <<>>
    /\ external_hashes = EmptyMap
    /\ tokens = {}
    /\ call = [op |-> "init"]
    /\ ret = None
    /\ log = <<>>

\* the document and the log after a call that returned r
Commit(r) ==
    /\ nodes' = r.w.nodes
    /\ external_resources' = r.w.external_resources
    /\ external_hashes' = r.w.external_hashes
    /\ log' = r.w.log
    /\ ret' = r.ret

Returned(scene_name, token) ==
    IF token.kind = "str" THEN tokens \cup {<<scene_name, token.val>>} ELSE tokens

DoFindSceneInSubtree(fs, folder, scene_filename) ==
    LET r == _find_scene_in_subtree(fs, folder, scene_filename)
    IN  /\ call' = [op |-> "_find_scene_in_subtree", fs |-> fs, folder |-> folder,
                    scene_filename |-> scene_filename]
        /\ ret' = r.ret
        /\ log' = r.log
        /\ UNCHANGED <<nodes, external_resources, external_hashes, tokens>>

DoFindScene(fs, export_settings, scene_filename) ==
    LET r == find_scene(fs, export_settings, scene_filename)
    IN  /\ call' = [op |-> "find_scene", export_settings |-> export_settings,
                    scene_filename |-> scene_filename]
        /\ ret' = r.ret
        /\ log' = r.log
        /\ UNCHANGED <<nodes, external_resources, external_hashes, tokens>>

DoUseExternalScene(fs, export_settings, scene_name) ==
    LET r == use_external_scene(World, fs, export_settings, scene_name)
    IN  /\ call' = [op |-> "use_external_scene", export_settings |-> export_settings,
                    scene_name |-> scene_name]
        /\ Commit(r)
        /\ tokens' = Returned(scene_name, r.ret)

DoExportEmptyNode(fs, export_settings, node, parent_gd_node) ==
    LET r == export_empty_node(World, fs, export_settings, node, parent_gd_node)
        new == IF Len(r.w.nodes) > Len(nodes) THEN r.w.nodes[Len(r.w.nodes)].instance
               ELSE None
    IN  /\ call' = [op |-> "export_empty_node", export_settings |-> export_settings,
                    node |-> node, parent_gd_node |-> parent_gd_node]
        /\ Commit(r)
        /\ tokens' = IF new = None THEN tokens
                     ELSE Returned(re_match(node.name).val, new)

DoExportCameraNode(export_settings, node, parent_gd_node) ==
    LET r == export_camera_node(World, export_settings, node, parent_gd_node)
    IN  /\ call' = [op |-> "export_camera_node", export_settings |-> export_settings,
                    node |-> node, parent_gd_node |-> parent_gd_node]
        /\ Commit(r)
        /\ UNCHANGED tokens

DoExportLightNode(export_settings, node, parent_gd_node) ==
    LET r == export_light_node(World, export_settings, node, parent_gd_node)
    IN  /\ call' = [op |-> "export_light_node", export_settings |-> export_settings,
                    node |-> node, parent_gd_node |-> parent_gd_node]
        /\ Commit(r)
        /\ UNCHANGED tokens

(* Spec: any sequence of calls on one document *)

UseExternalScene ==
    \E st \in SearchSettingsSet, name \in SceneNames :
        DoUseExternalScene(FsProject, st, name)

ExportEmptyNode ==
    /\ Len(nodes) < MaxNodes
    /\ \E st \in SearchSettingsSet \cup {NoEmptySettings},
          name \in EmptyNames, parent \in Parents :
        DoExportEmptyNode(FsProject, st, Entity(name, None), parent)

ExportCameraNode ==
    /\ Len(nodes) < MaxNodes
    /\ \E parent \in Parents :
        DoExportCameraNode(DefaultSettings, Entity(<<"c">>, Camera("PERSP")), parent)

ExportLightNode ==
    /\ Len(nodes) < MaxNodes
    /\ \E type \in {"POINT", "AREA"}, parent \in Parents :
        DoExportLightNode(DefaultSettings,
                          Entity(<<"l">>, Light(type, Rat(-250, 1), TRUE, TRUE)),
                          parent)

Next ==
    \/ UseExternalScene
    \/ ExportEmptyNode
    \/ ExportCameraNode
    \/ ExportLightNode

Spec == Init /\ [][Next]_vars

-----------------------------------------------------------------------------
(* SpecWide: one call on a fresh document, its inputs drawn from wide sets *)

RECURSIVE SeqsUpTo(_, _)
\* the sequences over S of length at most n
SeqsUpTo(S, n) ==
    IF n = 0 THEN {<<>>}
    ELSE LET shorter == SeqsUpTo(S, n - 1)
         IN  shorter \cup {Append(q, x) : q \in shorter, x \in S}

\* a directory holds no f.tscn, or one with the given content
FilesOf(contents) == {EmptyMap} \cup {(f_tscn :> c) : c \in contents}

Letters == <<"a", "b", "c", "d", "e">>
SubdirNames == {<<Letters[i]>> : i \in 1..MaxSubdirs}
LeafDirs == {Dir(<<"n">>, files, <<>>) : files \in FilesOf({Valid, Invalid}) \ {EmptyMap}}
MidDirs ==
    {Dir(name, files, subdirs) :
        name \in SubdirNames,
        files \in FilesOf({Valid, Invalid}),
        subdirs \in {<<>>} \cup {<<leaf>> : leaf \in LeafDirs}}

DirNames(dirs) == {dirs[i].name : i \in 1..Len(dirs)}

RECURSIVE SubdirLists(_)
\* the listings of at most n subdirectories, no name twice, in any order
SubdirLists(n) ==
    IF n = 0 THEN {<<>>}
    ELSE LET shorter == SubdirLists(n - 1)
             longest == {q \in shorter : Len(q) = n - 1}
         IN  shorter \cup
             {Append(pr[1], pr[2]) :
                 pr \in {x \in longest \X MidDirs : x[2].name \notin DirNames(x[1])}}

\* folders with subfolders: the file at the top is a scene, is none, or is no text
Trees ==
    {Dir(<<>>, files, subdirs) :
        files \in FilesOf({Valid, Invalid, Undecodable}),
        subdirs \in SubdirLists(MaxSubdirs)}

\* folders of one file, of every content
FlatTrees ==
    {Dir(<<>>, files, <<>>) : files \in FilesOf(Contents) \cup {(g_escn :> Valid)}}

\* the folders searched with the file name searched for
TreeQueries == (Trees \X {f_tscn}) \cup (FlatTrees \X SceneNames)

WideSettings ==
    {[object_types |-> AllTypes, material_search_paths |-> sp,
      project_path_func |-> pf, path |-> path] :
        sp \in {"PROJECT_DIR", "EXPORT_DIR", "NONE", "SHARED"},
        pf \in {None, Str(ProjectDir), Str(<<"/", "x">>), Str(<<"/", "q">>)},
        path \in {ExportPath, <<"o">>, <<"/", "o">>, <<"/", "e", "/", "/", "o">>,
                  <<"/", "p", "/", "s", "/", "o">>, <<"e", "/", "o">>,
                  <<"/", "p", "/", ".", ".", "/", "e", "/", "o">>,
                  <<"/", "p", "/", "s", "/", ".", "/", "o">>}}

Stems == SeqsUpTo({"f", ".", Newline}, MaxStem)
Exts == {<<".", "t", "s", "c", "n">>, <<".", "e", "s", "c", "n">>,
         <<".", "x", "s", "c", "n">>, <<".", "t", "s", "c">>,
         <<"t", "s", "c", "n">>, <<".", "T", "S", "C", "N">>, <<>>}
Tails == {<<>>, <<".", "1">>, <<Newline>>, <<"x">>, <<".", "e", "s", "c", "n">>}
WideNames == {stem \o ext \o tail : stem \in Stems, ext \in Exts, tail \in Tails}

Energies ==
    {Rat(n * scale, d) : n \in (-MaxEnergy)..MaxEnergy, scale \in {1, 50}, d \in {1, 2}}

\* the folders searched, each with the working directory of the process
Folders ==
    {<<ProjectDir, <<Slash>>>>, <<ExportDir, <<Slash>>>>, <<<<Slash>>, <<Slash>>>>,
     <<ProjectDir \o <<Slash>>, <<Slash>>>>, <<<<"p">>, <<Slash>>>>,
     <<Dot, ProjectDir>>,
     <<<<"/", "p", "/", "a", "/", ".", ".">>, <<Slash>>>>,
     <<<<".", ".", "/", "p", "/", ".", "/", "a">>, ProjectDir>>}

Fresh == call.op = "init"

WideFindSceneInSubtree ==
    /\ Fresh
    /\ \E q \in TreeQueries, at \in Folders :
        DoFindSceneInSubtree(FsOf(q[1], at[2]), at[1], q[2])

WideFindScene ==
    /\ Fresh
    /\ \E st \in WideSettings, name \in SceneNames :
        DoFindScene(FsProject, st, name)

WideExportEmptyNode ==
    /\ Fresh
    /\ \E st \in SearchSettingsSet \cup {NoEmptySettings}, name \in WideNames :
        DoExportEmptyNode(FsProject, st, Entity(name, None), None)

WideExportCameraNode ==
    /\ Fresh
    /\ \E type \in {"PERSP", "ORTHO", "PANO"}, angle \in {Rat(1, 2), Rat(1, 4)} :
        DoExportCameraNode(DefaultSettings,
                           Entity(<<"c">>, [Camera(type) EXCEPT !.angle = angle]),
                           None)

WideExportLightNode ==
    /\ Fresh
    /\ \E type \in {"POINT", "SPOT", "SUN", "AREA", "HEMI"}, energy \in Energies,
          use_shadow \in BOOLEAN, cast_shadow \in BOOLEAN :
        DoExportLightNode(DefaultSettings,
                          Entity(<<"l">>, Light(type, energy, use_shadow, cast_shadow)),
                          None)

NextWide ==
    \/ WideFindSceneInSubtree
    \/ WideFindScene
    \/ WideExportEmptyNode
    \/ WideExportCameraNode
    \/ WideExportLightNode

SpecWide == Init /\ [][NextWide]_vars

-----------------------------------------------------------------------------
(* Properties *)

\* the positions of the events of one kind in a log
EventsOf(l, ev) == {i \in 1..Len(l) : l[i].ev = ev}

Registrations(name) ==
    {i \in 1..Len(external_resources) : external_resources[i].name = name}

\* C1: a document never holds two external-resource registrations under one
\* scene name, and all the tokens returned for one scene name are the same
C1_OneRegistrationPerName ==
    /\ \A i, j \in 1..Len(external_resources) :
          external_resources[i].name = external_resources[j].name => i = j
    /\ \A p, q \in tokens : p[1] = q[1] => p[2] = q[2]

\* a call found the scene at another path than the one registered under its
\* name, and returned the token of the registered resource
C1_Witness ==
    /\ call.op = "use_external_scene"
    /\ ret.kind = "str"
    /\ Len(external_resources) = 2
    /\ \E i \in EventsOf(log, "find_scene"), k \in Registrations(call.scene_name) :
          /\ log[i].ret.kind = "tuple"
          /\ log[i].ret.path # external_resources[k].path
          /\ ret = Token(external_resources[k].id)

\* the marker lies in the first line of content
HasMarker(content) ==
    \E i \in 1..(Len(content) - Len(Marker) + 1) :
        /\ \A j \in 1..Len(Marker) : content[i + j - 1] = Marker[j]
        /\ \A k \in 1..(i - 1) : content[k] \notin {Newline, CarriageReturn}

RECURSIVE FilesUnder(_, _)
\* every file of a directory tree: its directory, its name and its content
FilesUnder(path, dir) ==
    {[dir_path |-> path, name |-> n, content |-> dir.files[n]] : n \in DOMAIN dir.files}
    \cup UNION {FilesUnder(PathJoin(path, dir.subdirs[i].name), dir.subdirs[i]) :
                   i \in 1..Len(dir.subdirs)}

\* the files called name under folder whose first line holds the marker
ValidScenes(fs, folder, name) ==
    IF Resolve(fs, folder) = None THEN {}
    ELSE {f \in FilesUnder(folder, Resolve(fs, folder)) :
             f.name = name /\ HasMarker(f.content)}

ScenePath(f) == PathJoin(f.dir_path, f.name)

\* the place of a directory in the walk of folder
WalkIndex(fs, folder, dir_path) ==
    CHOOSE i \in 1..Len(os_walk(fs, folder)) : os_walk(fs, folder)[i].dir_path = dir_path

FindResult(valid, fs, folder) ==
    /\ valid = {} => ret = None
    /\ valid # {} =>
          \E f \in valid :
              /\ ret = Tuple2(ScenePath(f), "PackedScene")
              /\ \A g \in valid :
                    WalkIndex(fs, folder, f.dir_path) <= WalkIndex(fs, folder, g.dir_path)
    /\ Cardinality(valid) >= 2 => EventsOf(log, "warning") # {}

\* C2: _find_scene_in_subtree returns not-found if no file of that name has the
\* marker in its first line, else the first such file in walk order with type
\* PackedScene (never a file without the marker), and warns if there are several
C2_FindSceneInSubtree ==
    call.op = "_find_scene_in_subtree" =>
        FindResult(ValidScenes(call.fs, call.folder, call.scene_filename),
                   call.fs, call.folder)

ExtsOfScenes == {<<".", "t", "s", "c", "n">>, <<".", "e", "s", "c", "n">>}

\* name ends in .tscn or .escn
EndsInSceneSuffix(name) ==
    Len(name) >= 5 /\ SubSeq(name, Len(name) - 4, Len(name)) \in ExtsOfScenes

\* the lengths of the prefixes of name that hold no newline and end in a suffix
ScenePrefixes(name) ==
    {k \in 5..Len(name) :
        /\ EndsInSceneSuffix(SubSeq(name, 1, k))
        /\ \A i \in 1..k : name[i] # Newline}

PlaceholdersOn == "EMPTY" \in call.export_settings.object_types

\* C3 as stated: with placeholder export enabled, export_empty_node looks a
\* scene up if and only if the name ends in a scene-file suffix
C3_LookupIffNameEndsInSuffix ==
    (call.op = "export_empty_node" /\ PlaceholdersOn) =>
        (EventsOf(log, "find_scene") # {} <=> EndsInSceneSuffix(call.node.name))

\* C3 amended: export_empty_node looks a scene up if and only if placeholder
\* export is enabled and some prefix of the name, free of newlines, ends in
\* .tscn or .escn; it looks up exactly once, and the scene it looks up is the
\* longest such prefix, whatever follows it in the name
C3_LookupIffNameHoldsSuffix ==
    call.op = "export_empty_node" =>
        /\ EventsOf(log, "find_scene") # {}
              <=> (PlaceholdersOn /\ ScenePrefixes(call.node.name) # {})
        /\ \A i \in EventsOf(log, "find_scene") :
              /\ log[i].arg = SubSeq(call.node.name, 1,
                                     Max(ScenePrefixes(call.node.name)))
              /\ EventsOf(log, "find_scene") = {i}

\* a name with characters after the suffix was looked up and instantiated
C3_Witness ==
    /\ call.op = "export_empty_node"
    /\ ~EndsInSceneSuffix(call.node.name)
    /\ EventsOf(log, "find_scene") # {}
    /\ Len(nodes) = 1
    /\ nodes[1].cls = "InstanceTemplate"

\* the document is as it was before the step
SameResources ==
    /\ external_resources' = external_resources
    /\ external_hashes' = external_hashes
SameDocument == nodes' = nodes /\ SameResources

\* the step added exactly one node, behind the nodes already there
AddedOne ==
    /\ Len(nodes') = Len(nodes) + 1
    /\ SubSeq(nodes', 1, Len(nodes)) = nodes
Added == nodes'[Len(nodes')]

\* the state after a call of export_empty_node with placeholder export enabled,
\* a name that matches the scene pattern, and no external scene found
NoSceneFor(c, l) ==
    /\ c.op = "export_empty_node"
    /\ "EMPTY" \in c.export_settings.object_types
    /\ EventsOf(l, "find_scene") # {}
    /\ \A i \in EventsOf(l, "find_scene") : l[i].ret = None

\* C4: such a call adds exactly one node, a Spatial node template that is no
\* instance, with the entity's local transform and the given parent, returns
\* it, and registers no external resource
C4_FallbackSpatial ==
    [][NoSceneFor(call', log') =>
          /\ AddedOne
          /\ Added.cls = "NodeTemplate"
          /\ Added.type = "Spatial"
          /\ Added.instance = None
          /\ Added.name = call'.node.name
          /\ Added.parent = call'.parent_gd_node
          /\ Added.attrs = ("transform" :> call'.node.matrix_local)
          /\ ret' = NodeRef(Added.id)
          /\ SameResources]_vars

\* the fallback happened in a document that holds a registration, under a node
C4_Witness ==
    /\ NoSceneFor(call, log)
    /\ EventsOf(log, "warning") # {}
    /\ call.parent_gd_node # None
    /\ ret = NodeRef(Len(nodes))
    /\ nodes[Len(nodes)].type = "Spatial"
    /\ Len(external_resources) > 0

PlaceholdersOff(c) ==
    c.op = "export_empty_node" /\ "EMPTY" \notin c.export_settings.object_types

\* C5: with EMPTY not among the object types, export_empty_node returns the
\* parent it was given, leaves nodes and resources as they were, and does no
\* lookup and no filesystem read, whatever the name
C5_DisabledReturnsParent ==
    [][PlaceholdersOff(call') =>
          /\ ret' = call'.parent_gd_node
          /\ SameDocument
          /\ log' = <<>>]_vars

\* a disabled call for a name that matches the scene pattern, under a node
C5_Witness ==
    /\ PlaceholdersOff(call)
    /\ EndsInSceneSuffix(call.node.name)
    /\ call.parent_gd_node # None
    /\ ret = call.parent_gd_node

RecognizedLights == {"POINT", "SPOT", "SUN"}

UnknownLight(c) ==
    c.op = "export_light_node" /\ c.node.data.type \notin RecognizedLights

\* C6: for a light of no recognized kind export_light_node adds no node,
\* returns None, and calls export_animation_data exactly once, with None as
\* the target node
C6_UnknownLight ==
    [][UnknownLight(call') =>
          /\ SameDocument
          /\ ret' = None
          /\ Cardinality(EventsOf(log', "export_animation_data")) = 1
          /\ \A i \in EventsOf(log', "export_animation_data") : log'[i].arg = None
          /\ EventsOf(log', "add_node") = {}]_vars

C6_Witness ==
    /\ UnknownLight(call)
    /\ call.node.data.type = "AREA"
    /\ ret = None
    /\ Len(nodes) > 0
    /\ EventsOf(log, "export_animation_data") # {}

\* |e| / by, computed on the numerator and the denominator
Magnitude(e, by) == Rat(IAbs(e[1]), e[2] * by)

\* C7: the node of a recognized light has light_energy = |e|/100 (Omni, Spot)
\* or |e| (Directional), never negative, and light_negative true iff e < 0
C7_EnergySplit ==
    (call.op = "export_light_node" /\ call.node.data.type \in RecognizedLights) =>
        LET e == call.node.data.energy
            attrs == nodes[Len(nodes)].attrs
        IN  /\ attrs["light_energy"] =
                  IF call.node.data.type = "SUN" THEN Magnitude(e, 1)
                  ELSE Magnitude(e, 100)
            /\ attrs["light_energy"][1] >= 0
            /\ attrs["light_energy"][2] > 0
            /\ attrs["light_negative"] = (e[1] < 0)

\* an Omni light of energy -250 became energy 2.5, negative
C7_Witness ==
    /\ call.op = "export_light_node"
    /\ call.node.data.type = "POINT"
    /\ call.node.data.energy = <<-250, 1>>
    /\ nodes[Len(nodes)].type = "OmniLight"
    /\ nodes[Len(nodes)].attrs["light_energy"] = <<5, 2>>
    /\ nodes[Len(nodes)].attrs["light_negative"] = TRUE

\* the static attributes of a camera node, and of a light node of each kind
StaticAttributes(type) ==
    CASE type = "Camera" -> {"far", "near", "size", "projection", "fov", "transform"}
      [] type = "OmniLight" ->
            {"light_specular", "light_color", "shadow_color", "light_energy",
             "omni_range", "transform", "light_negative", "shadow_enabled"}
      [] type = "SpotLight" ->
            {"light_specular", "light_color", "shadow_color", "light_energy",
             "spot_angle", "spot_angle_attenuation", "spot_range",
             "transform", "light_negative", "shadow_enabled"}
      [] type = "DirectionalLight" ->
            {"light_specular", "light_color", "shadow_color", "light_energy",
             "transform", "light_negative", "shadow_enabled"}

ExportedNode ==
    \/ call.op = "export_camera_node"
    \/ call.op = "export_light_node" /\ call.node.data.type \in RecognizedLights

\* C8: a camera call, and a light call for a recognized kind, registers the
\* node before it calls export_animation_data, the registered node already
\* holds every static attribute, and export_animation_data is called once
C8_RegisterThenAnimate ==
    ExportedNode =>
        /\ Cardinality(EventsOf(log, "add_node")) = 1
        /\ Cardinality(EventsOf(log, "export_animation_data")) = 1
        /\ \A i \in EventsOf(log, "add_node"), j \in EventsOf(log, "export_animation_data") :
              /\ i < j
              /\ DOMAIN log[i].arg.attrs = StaticAttributes(log[i].arg.type)
              /\ log[i].arg = nodes[Len(nodes)]
              /\ log[j].arg = NodeRef(log[i].arg.id)

C8_Witness ==
    /\ call.op = "export_light_node"
    /\ ret = NodeRef(Len(nodes))
    /\ Len(log) = 2
    /\ log[1].ev = "add_node"
    /\ log[2].ev = "export_animation_data"
    /\ "shadow_enabled" \in DOMAIN log[1].arg.attrs

\* no search root is determined from these settings
NoSearchRoot(st) ==
    \/ st.material_search_paths \notin {"PROJECT_DIR", "EXPORT_DIR"}
    \/ st.material_search_paths = "PROJECT_DIR" /\ st.project_path_func = None

\* C9: when the settings determine no search root, find_scene returns
\* not-found and reads nothing from the filesystem, and use_external_scene,
\* called directly or by export_empty_node, returns None and registers nothing
C9_NoRootNoAccess ==
    [][(call'.op \in {"use_external_scene", "export_empty_node"}
        /\ NoSearchRoot(call'.export_settings)) =>
          /\ \A i \in EventsOf(log', "find_scene") : log'[i].ret = None
          /\ EventsOf(log', "walk") = {}
          /\ EventsOf(log', "open") = {}
          /\ SameResources
          /\ call'.op = "use_external_scene" =>
                /\ Cardinality(EventsOf(log', "find_scene")) = 1
                /\ ret' = None
                /\ nodes' = nodes]_vars

\* a call without a search root for a scene that an earlier call registered
C9_Witness ==
    /\ call.op = "use_external_scene"
    /\ NoSearchRoot(call.export_settings)
    /\ ret = None
    /\ call.scene_name \in DOMAIN external_hashes

Converters == {"export_empty_node", "export_camera_node", "export_light_node"}

\* C10: a converter call adds no node or one node and leaves the earlier nodes
\* as they were; it adds none exactly when placeholders are disabled (it
\* returns the parent) or the light kind is unknown (it returns None), and
\* otherwise returns the one node it added, whose parent is the parent given
C10_AddsAtMostOne ==
    [][call'.op \in Converters =>
          IF PlaceholdersOff(call')
          THEN nodes' = nodes /\ ret' = call'.parent_gd_node
          ELSE IF UnknownLight(call')
          THEN nodes' = nodes /\ ret' = None
          ELSE /\ AddedOne
               /\ ret' = NodeRef(Added.id)
               /\ Added.parent = call'.parent_gd_node
               /\ \A i \in 1..Len(nodes) : nodes[i].id # Added.id]_vars
====
